---- MODULE Spec2Model ----
(***************************************************************************)
(* Model of html_classes_linter/parser.py: class HtmlAttributeParser.       *)
(*                                                                         *)
(* A text is a sequence of one-character strings.  The parser object holds  *)
(* only the configuration set by __init__ (attribute_name and what is built *)
(* from it); every method is a pure function of that configuration and its  *)
(* arguments, except that process_source first notifies the logger.         *)
(*                                                                         *)
(* State: the constructed parser, the last method called on it (pc), the    *)
(* arguments of that call (args) and what the call produced (outcome).      *)
(***************************************************************************)
EXTENDS Integers, Sequences, FiniteSets

VARIABLES attribute_name, pc, args, outcome

vars == <<attribute_name, pc, args, outcome>>

----------------------------------------------------------------------------
(* Characters *)

QUOTE == "\""

EQUALS == "="

SPACE == " "

TAB == "\t"

NEWLINE == "\n"

\* The characters str.split() and str.isspace() treat as whitespace, among
\* those the model's texts are made of.
Whitespace == {SPACE, TAB, NEWLINE}

----------------------------------------------------------------------------
(* Bounds and input sets *)

\* A source content is made of at most MaxParts parts.
MaxParts == 4

\* An attribute value handed to a split method has at most MaxValueLen
\* characters.
MaxValueLen == 5

\* A token sequence handed directly to apply_rule_H051 has at most MaxItems
\* tokens of at most MaxTokenLen characters.
MaxItems == 3

MaxTokenLen == 2

\* A batch holds at most MaxBatch sources, each of at most MaxBatchParts
\* parts.
MaxBatch == 3

MaxBatchParts == 1

\* The attribute names a parser is constructed with.  "c" is a plain name;
\* "." is a name holding a regular expression metacharacter (as the dot of
\* "x-on:click.away" or "v-on:keyup.enter").
AttributeNames == {<<"c">>, <<".">>}

\* The identifiers (file paths) of sources.
Paths == {"p1", "p2", "p3", "p4"}

RECURSIVE Flatten(_)
Flatten(parts) ==
    IF parts = <<>> THEN <<>> ELSE Head(parts) \o Flatten(Tail(parts))

\* All sequences of at most n elements of S.
SeqsUpTo(S, n) == UNION {[1..k -> S] : k \in 0..n}

\* The texts made of at most n parts, each a member of P.
TextsOf(P, n) == {Flatten(ps) : ps \in SeqsUpTo(P, n)}

\* A part of a source content: one character, or the opening of an
\* attribute (name, equals sign, double quote).
ContentParts ==
    {<<ch>> : ch \in {"c", ".", EQUALS, QUOTE, SPACE, NEWLINE}}
        \cup {n \o <<EQUALS, QUOTE>> : n \in AttributeNames}

\* The examples of the documentation: the test source of "non-target text
\* untouched", and an attribute whose value holds two consecutive spaces.
ExampleUntouched ==
    <<"<", "p", SPACE, "i", "d", EQUALS, QUOTE, "x", QUOTE, SPACE,
      "c", EQUALS, QUOTE, "a", SPACE, "a", QUOTE, ">", "t",
      "<", "/", "p", ">", NEWLINE>>

ExampleTwoSpaces == <<"c", "=", QUOTE, "a", SPACE, SPACE, "b", QUOTE>>

Contents ==
    TextsOf(ContentParts, MaxParts) \cup {ExampleUntouched, ExampleTwoSpaces}

\* Attribute values: every text of at most MaxValueLen characters over the
\* value alphabet, and the values of the documentation's examples.
ValueChars == {"a", "b", SPACE, TAB, NEWLINE}

ExampleCollapse ==
    <<SPACE, "a", SPACE, SPACE, SPACE, "b", TAB, "c", SPACE>>

ExampleDedupe == <<"a", SPACE, "a", SPACE, "b", SPACE, "a">>

ExampleIdentity == <<"a", SPACE, SPACE, "b">>

Values ==
    SeqsUpTo(ValueChars, MaxValueLen)
        \cup {ExampleCollapse, ExampleDedupe, ExampleIdentity}

\* Tokens and token sequences handed directly to apply_rule_H051.
TokenChars == {"a", TAB}

Tokens == SeqsUpTo(TokenChars, MaxTokenLen)

TokenSeqs == SeqsUpTo(Tokens, MaxItems)

\* The parts of a batch's contents: a character, a whole attribute with two
\* equal keywords.
BatchParts ==
    {<<"c">>, <<"c", EQUALS, QUOTE, "c", SPACE, "c", QUOTE>>}

BatchContents == TextsOf(BatchParts, MaxBatchParts)

\* A mapping identifier -> content in insertion order: a sequence of
\* <<identifier, content>> pairs whose identifiers are distinct.
Mappings ==
    {s \in SeqsUpTo(Paths \X BatchContents, MaxBatch) :
        \A i, j \in 1..Len(s) : i # j => s[i][1] # s[j][1]}

----------------------------------------------------------------------------
(* __init__: what is built from the attribute name *)

\* self.attribute_start = '{}="'.format(self.attribute_name)
attribute_start(name) == name \o <<EQUALS, QUOTE>>

\* self.attribute_end = '"'
attribute_end == <<QUOTE>>

\* One character of the attribute name, as the element of attribute_pattern
\* it becomes: the name is formatted into the pattern as it is, so that a
\* dot is the regular expression's "any character but a line break" and any
\* other character of the model's names stands for itself.
NameCharMatches(p, ch) == IF p = "." THEN ch # NEWLINE ELSE p = ch

\* The name part of attribute_pattern matches the text at position i.
NameMatchesAt(name, text, i) ==
    /\ i + Len(name) - 1 <= Len(text)
    /\ \A k \in 1..Len(name) : NameCharMatches(name[k], text[i + k - 1])

\* The longest run [^"]* can take from position p.
RECURSIVE NonQuoteRun(_, _)
NonQuoteRun(text, p) ==
    IF p > Len(text) \/ text[p] = QUOTE THEN 0
    ELSE 1 + NonQuoteRun(text, p + 1)

\* (?![^" ]): the next character is not one that is neither a double quote
\* nor a space; the end of the text passes.
LookaheadPasses(text, p) == p > Len(text) \/ text[p] \in {QUOTE, SPACE}

Max(S) == CHOOSE x \in S : \A y \in S : y <= x

\* A pattern whose runs are ".*" instead of [^"]*: the match goes on to the
\* last double quote of the text.
attribute_regex_match_greedy(name, text, i) ==
    LET p == i + Len(name) + 2
        opens == /\ NameMatchesAt(name, text, i)
                 /\ p - 1 <= Len(text)
                 /\ text[p - 2] = EQUALS
                 /\ text[p - 1] = QUOTE
        Quotes == {q \in p..Len(text) : text[q] = QUOTE}
    IN  IF ~opens \/ Quotes = {} THEN 0 ELSE Max(Quotes) + 1

\* attribute_pattern = name="(?:[^"]*)(?![^" ])[^"]*" tried at position i:
\* the position after the match, or 0 when the pattern does not match at i.
\* Both runs are greedy: the first takes the most characters for which the
\* rest of the pattern still matches, then the second does.
attribute_regex_match(name, text, i) ==
    LET p == i + Len(name) + 2
        opens == /\ NameMatchesAt(name, text, i)
                 /\ p - 1 <= Len(text)
                 /\ text[p - 2] = EQUALS
                 /\ text[p - 1] = QUOTE
        Ways == {w \in (0..NonQuoteRun(text, p)) \X (0..Len(text)) :
                    /\ LookaheadPasses(text, p + w[1])
                    /\ w[2] <= NonQuoteRun(text, p + w[1])
                    /\ p + w[1] + w[2] <= Len(text)
                    /\ text[p + w[1] + w[2]] = QUOTE}
    IN  IF ~opens \/ Ways = {} THEN 0
        ELSE LET k1 == Max({w[1] : w \in Ways})
                 k2 == Max({w[2] : w \in {x \in Ways : x[1] = k1}})
             IN  p + k1 + k2 + 1

----------------------------------------------------------------------------
(* The methods *)

StartsWith(text, prefix) ==
    Len(prefix) <= Len(text) /\ SubSeq(text, 1, Len(prefix)) = prefix

EndsWith(text, suffix) ==
    /\ Len(suffix) <= Len(text)
    /\ SubSeq(text, Len(text) - Len(suffix) + 1, Len(text)) = suffix

\* content.split(" "): split at every space, empty tokens kept.
RECURSIVE apply_default_split(_)
apply_default_split(content) ==
    IF content = <<>> THEN << <<>> >>
    ELSE LET rest == apply_default_split(Tail(content))
         IN  IF Head(content) = SPACE THEN << <<>> >> \o rest
             ELSE << <<Head(content)>> \o Head(rest) >> \o Tail(rest)

\* The longest run of characters that are not whitespace from position p.
RECURSIVE WordRun(_, _)
WordRun(text, p) ==
    IF p > Len(text) \/ text[p] \in Whitespace THEN 0
    ELSE 1 + WordRun(text, p + 1)

\* A rule H050 that splits at the literal space only.
apply_rule_H050_spaces(content) == apply_default_split(content)

\* content.split(): split at runs of whitespace, no empty token.
RECURSIVE apply_rule_H050(_)
apply_rule_H050(content) ==
    IF content = <<>> THEN <<>>
    ELSE IF Head(content) \in Whitespace THEN apply_rule_H050(Tail(content))
    ELSE LET n == WordRun(content, 1)
         IN  <<SubSeq(content, 1, n)>>
                 \o apply_rule_H050(SubSeq(content, n + 1, Len(content)))

\* str.isspace(): at least one character, and all of them whitespace.
isspace(item) ==
    Len(item) > 0 /\ \A i \in 1..Len(item) : item[i] \in Whitespace

\* item in value
Contains(value, item) == \E i \in 1..Len(value) : value[i] = item

\* The loop of apply_rule_H051 over the items left, value being the list
\* built so far.
RECURSIVE H051_loop(_, _)
H051_loop(items, value) ==
    IF items = <<>> THEN value
    ELSE LET item == Head(items)
         IN  H051_loop(Tail(items),
                       IF item = <<>> \/ isspace(item) \/ ~Contains(value, item)
                       THEN Append(value, item)
                       ELSE value)

\* A rule H051 whose loop tests only "item not in value": the second empty
\* or whitespace-only token is dropped like any other.
RECURSIVE H051_loop_strict(_, _)
H051_loop_strict(items, value) ==
    IF items = <<>> THEN value
    ELSE H051_loop_strict(Tail(items),
                          IF ~Contains(value, Head(items))
                          THEN Append(value, Head(items))
                          ELSE value)

apply_rule_H051_strict(items) == H051_loop_strict(items, <<>>)

apply_rule_H051(items) == H051_loop(items, <<>>)

\* A get_attribute_value without its two checks: the slice, whatever the
\* text is.
get_attribute_value_unchecked(name, group) ==
    [raised |-> "none",
     value |-> SubSeq(group, Len(attribute_start(name)) + 1,
                      Len(group) - Len(attribute_end))]

\* get_attribute_value on matchobj.group(0): the value, or ParserError.
get_attribute_value(name, group) ==
    IF group = <<>> THEN [raised |-> "ParserError", value |-> <<>>]
    ELSE IF \/ ~StartsWith(group, attribute_start(name))
            \/ ~EndsWith(group, attribute_end)
    THEN [raised |-> "ParserError", value |-> <<>>]
    ELSE [raised |-> "none",
          value |-> SubSeq(group, Len(attribute_start(name)) + 1,
                           Len(group) - Len(attribute_end))]

\* attribute_cleaner on matchobj.group(0): the attribute written again
\* around its value, or the error of get_attribute_value.
attribute_cleaner(name, group) ==
    LET v == get_attribute_value(name, group)
    IN  IF v.raised # "none" THEN [raised |-> v.raised, text |-> <<>>]
        ELSE [raised |-> "none",
              text |-> attribute_start(name) \o v.value \o attribute_end]

\* self.attribute_regex.sub(self.attribute_cleaner, content) from position
\* pos on, out being the text written so far and matched the spans handed
\* to attribute_cleaner so far (first position, position after the last, and
\* the replacement's length).  The leftmost match is replaced and the scan
\* goes on after it; a character no match starts at is copied.  An error of
\* attribute_cleaner ends the substitution: no text is produced.
RECURSIVE regex_sub(_, _, _, _, _)
regex_sub(name, content, pos, out, matched) ==
    IF pos > Len(content)
    THEN [raised |-> "none", text |-> out, matched |-> matched]
    ELSE LET stop == attribute_regex_match(name, content, pos)
         IN  IF stop = 0
             THEN regex_sub(name, content, pos + 1,
                            Append(out, content[pos]), matched)
             ELSE LET r == attribute_cleaner(
                               name, SubSeq(content, pos, stop - 1))
                  IN  IF r.raised # "none"
                      THEN [raised |-> r.raised, text |-> <<>>,
                            matched |-> Append(matched,
                                [from |-> pos, to |-> stop, len |-> 0])]
                      ELSE regex_sub(name, content, stop, out \o r.text,
                               Append(matched,
                                   [from |-> pos, to |-> stop,
                                    len |-> Len(r.text)]))

\* A process_source that ends the processed content with a line break.
process_source_newline(name, filepath, content, log_raises) ==
    IF log_raises
    THEN [raised |-> "LoggerError", returned |-> <<>>, matched |-> <<>>]
    ELSE LET r == regex_sub(name, content, 1, <<>>, <<>>)
         IN  IF r.raised # "none"
             THEN [raised |-> r.raised, returned |-> <<>>,
                   matched |-> r.matched]
             ELSE [raised |-> "none",
                   returned |->
                       << <<filepath, content, r.text \o <<NEWLINE>> >> >>,
                   matched |-> r.matched]

\* process_source(filepath, content), log_raises telling whether the call
\* of self.log.info raises.  Nothing catches what log.info or the
\* substitution raises.  returned holds the tuple the call returns, or
\* nothing when it raises.
process_source(name, filepath, content, log_raises) ==
    IF log_raises
    THEN [raised |-> "LoggerError", returned |-> <<>>, matched |-> <<>>]
    ELSE LET r == regex_sub(name, content, 1, <<>>, <<>>)
         IN  IF r.raised # "none"
             THEN [raised |-> r.raised, returned |-> <<>>,
                   matched |-> r.matched]
             ELSE [raised |-> "none",
                   returned |-> << <<filepath, content, r.text>> >>,
                   matched |-> r.matched]

\* The list comprehension of batch_sources over sources.items() from entry
\* k on, results being the list built so far; log_raises_at is the entry at
\* whose call log.info raises (0: at none).  The first call that raises ends
\* the comprehension, and the list built so far is lost.
RECURSIVE batch_loop(_, _, _, _, _)
batch_loop(name, sources, k, results, log_raises_at) ==
    IF k > Len(sources)
    THEN [raised |-> "none", returned |-> <<results>>, calls |-> k - 1]
    ELSE LET r == process_source(name, sources[k][1], sources[k][2],
                                 log_raises_at = k)
         IN  IF r.raised # "none"
             THEN [raised |-> r.raised, returned |-> <<>>, calls |-> k]
             ELSE batch_loop(name, sources, k + 1,
                             Append(results, r.returned[1]), log_raises_at)

batch_sources(name, sources, log_raises_at) ==
    batch_loop(name, sources, 1, <<>>, log_raises_at)

----------------------------------------------------------------------------
(* The state machine: a constructed parser and one call of a method *)

\* __init__: the parser holds its attribute name; no method was called.
Init ==
    /\ attribute_name \in AttributeNames
    /\ pc = "constructed"
    /\ args = <<>>
    /\ outcome = <<>>

ProcessSource ==
    /\ pc = "constructed"
    /\ \E filepath \in Paths, content \in Contents, log_raises \in BOOLEAN :
        /\ args' = [filepath |-> filepath, content |-> content,
                    log_raises |-> log_raises]
        /\ outcome' = process_source(attribute_name, filepath, content,
                                     log_raises)
    /\ pc' = "process_source"
    /\ UNCHANGED attribute_name

BatchSources ==
    /\ pc = "constructed"
    /\ \E sources \in Mappings :
        \E log_raises_at \in 0..Len(sources) :
            /\ args' = [sources |-> sources, log_raises_at |-> log_raises_at]
            /\ outcome' = batch_sources(attribute_name, sources,
                                        log_raises_at)
    /\ pc' = "batch_sources"
    /\ UNCHANGED attribute_name

ApplyDefaultSplit ==
    /\ pc = "constructed"
    /\ \E content \in Values :
        /\ args' = content
        /\ outcome' = apply_default_split(content)
    /\ pc' = "apply_default_split"
    /\ UNCHANGED attribute_name

ApplyRuleH050 ==
    /\ pc = "constructed"
    /\ \E content \in Values :
        /\ args' = content
        /\ outcome' = apply_rule_H050(content)
    /\ pc' = "apply_rule_H050"
    /\ UNCHANGED attribute_name

\* get_attribute_value on a match object whose group(0) is any text.
GetAttributeValue ==
    /\ pc = "constructed"
    /\ \E group \in Contents :
        /\ args' = group
        /\ outcome' = get_attribute_value(attribute_name, group)
    /\ pc' = "get_attribute_value"
    /\ UNCHANGED attribute_name

\* apply_rule_H051 on a token sequence of the caller's.
ApplyRuleH051 ==
    /\ pc = "constructed"
    /\ \E items \in TokenSeqs :
        /\ args' = items
        /\ outcome' = apply_rule_H051(items)
    /\ pc' = "apply_rule_H051"
    /\ UNCHANGED attribute_name

\* apply_rule_H051 on the items a split method returned.
ApplyRuleH051AfterSplit ==
    /\ pc \in {"apply_default_split", "apply_rule_H050"}
    /\ args' = outcome
    /\ outcome' = apply_rule_H051(outcome)
    /\ pc' = "apply_rule_H051"
    /\ UNCHANGED attribute_name

Next ==
    \/ ProcessSource
    \/ BatchSources
    \/ GetAttributeValue
    \/ ApplyDefaultSplit
    \/ ApplyRuleH050
    \/ ApplyRuleH051
    \/ ApplyRuleH051AfterSplit

Spec == Init /\ [][Next]_vars

----------------------------------------------------------------------------
(* What the properties are stated with *)

\* " ".join(items)
RECURSIVE JoinSpace(_)
JoinSpace(items) ==
    IF items = <<>> THEN <<>>
    ELSE IF Len(items) = 1 THEN items[1]
    ELSE items[1] \o <<SPACE>> \o JoinSpace(Tail(items))

\* process_source was called and returned its tuple.
Returned == pc = "process_source" /\ outcome.raised = "none"

\* The third item of the tuple process_source returned.
Transformed == outcome.returned[1][3]

\* Position i of a content lies in none of the spans m.
Outside(m, i) == \A k \in 1..Len(m) : i < m[k].from \/ i >= m[k].to

\* By how much the replacements of the spans of m that end at or before
\* position i move what follows them.
RECURSIVE Displacement(_, _)
Displacement(m, i) ==
    IF m = <<>> \/ Head(m).to > i THEN 0
    ELSE Head(m).len - (Head(m).to - Head(m).from)
             + Displacement(Tail(m), i)

\* The literal text name=" stands at position i of text and a double quote
\* follows it somewhere: an attribute begins at i.
AttributeAt(name, text, i) ==
    /\ i + Len(name) + 1 <= Len(text)
    /\ \A j \in 1..Len(name) : text[i + j - 1] = name[j]
    /\ text[i + Len(name)] = EQUALS
    /\ text[i + Len(name) + 1] = QUOTE
    /\ \E q \in (i + Len(name) + 2)..Len(text) : text[q] = QUOTE

\* The text does not start with name=" or does not end with a double quote.
BreaksEnvelope(name, text) ==
    \/ Len(text) < Len(name) + 2
    \/ \E j \in 1..Len(name) : text[j] # name[j]
    \/ text[Len(name) + 1] # EQUALS
    \/ text[Len(name) + 2] # QUOTE
    \/ text[Len(text)] # QUOTE

\* The indices of a token sequence rule H051 is to keep.
KeptIndices(items) ==
    {i \in 1..Len(items) :
        \/ items[i] = <<>>
        \/ \A c \in 1..Len(items[i]) : items[i][c] \in Whitespace
        \/ \A j \in 1..(i - 1) : items[j] # items[i]}

\* The positions of a value where a run of characters that are not
\* whitespace begins, and where one ends.
WordStarts(value) ==
    {i \in 1..Len(value) :
        /\ value[i] \notin Whitespace
        /\ (i = 1 \/ value[i - 1] \in Whitespace)}

WordEnds(value) ==
    {i \in 1..Len(value) :
        /\ value[i] \notin Whitespace
        /\ (i = Len(value) \/ value[i + 1] \in Whitespace)}

\* The k-th smallest member of a set of numbers.
Nth(S, k) == CHOOSE x \in S : Cardinality({y \in S : y <= x}) = k

----------------------------------------------------------------------------
(* Properties *)

\* C1: the content process_source returns differs from the original only
\* inside the spans the attribute pattern matched: every character outside
\* them is in the result, at the position the replacements before it leave
\* it at, and the result holds nothing else outside the replacements.
C1_OutsideSpansUntouched ==
    Returned =>
        LET c == args.content
            m == outcome.matched
        IN  /\ Len(Transformed) = Len(c) + Displacement(m, Len(c) + 1)
            /\ \A i \in 1..Len(c) :
                   Outside(m, i) =>
                       Transformed[i + Displacement(m, i)] = c[i]

\* C1 witness: the source of the documentation's example was processed for
\* attribute "c": one span was matched, after id="x" and before the markup
\* that follows.
C1_Witness ==
    /\ Returned
    /\ attribute_name = <<"c">>
    /\ args.content = ExampleUntouched
    /\ Len(outcome.matched) = 1
    /\ outcome.matched[1].from = 11

\* C2 (as stated): with no rule, process_source returns a result for every
\* content, and its transformed content is the original content; splitting
\* a value at the literal space and joining with a space gives the value.
C2_IdentityBaseline ==
    /\ pc = "process_source" =>
           /\ outcome.raised = "none"
           /\ Len(outcome.returned) = 1
           /\ outcome.returned[1][3] = args.content
    /\ pc = "apply_default_split" => JoinSpace(outcome) = args

\* What holds of the identity baseline: a result that is returned holds the
\* original content as its transformed content, a call raises only when the
\* logger raised or a matched span was refused, and splitting at the literal
\* space then joining with a space gives the value back.
IdentityWhenReturned ==
    /\ Returned => Transformed = args.content
    /\ pc = "process_source" /\ outcome.raised # "none" =>
           args.log_raises \/ outcome.matched # <<>>
    /\ pc = "apply_default_split" => JoinSpace(outcome) = args

\* C3: apply_rule_H051 returns the subsequence of its input made of every
\* empty token, every whitespace-only token and the first occurrence of
\* each other token, in the input's order; the items of "a a b a" split at
\* the literal space become those of "a b".
C3_DedupeKeepsFirst ==
    pc = "apply_rule_H051" =>
        LET K == KeptIndices(args)
        IN  /\ Len(outcome) = Cardinality(K)
            /\ \A k \in 1..Len(outcome) : outcome[k] = args[Nth(K, k)]
            /\ args = apply_default_split(ExampleDedupe) =>
                   JoinSpace(outcome) = <<"a", SPACE, "b">>

\* C3 witness: the rule was applied to the items of "a a b a" and dropped
\* the second and the third "a".
C3_Witness ==
    /\ pc = "apply_rule_H051"
    /\ args = << <<"a">>, <<"a">>, <<"b">>, <<"a">> >>
    /\ outcome = << <<"a">>, <<"b">> >>

\* C4: apply_rule_H050 returns the runs of characters of the value that are
\* not whitespace, in order: no token is empty or holds whitespace, and the
\* tokens joined with a space neither start nor end with whitespace and
\* hold exactly one space between two tokens; " a   b\tc " gives "a b c".
C4_CollapseWhitespace ==
    pc = "apply_rule_H050" =>
        LET joined == JoinSpace(outcome)
        IN  /\ Len(outcome) = Cardinality(WordStarts(args))
            /\ \A k \in 1..Len(outcome) :
                   /\ outcome[k] =
                          SubSeq(args, Nth(WordStarts(args), k),
                                 Nth(WordEnds(args), k))
                   /\ outcome[k] # <<>>
                   /\ \A c \in 1..Len(outcome[k]) :
                          outcome[k][c] \notin Whitespace
            /\ \A i \in 1..Len(joined) :
                   joined[i] \in Whitespace =>
                       /\ joined[i] = SPACE
                       /\ 1 < i /\ i < Len(joined)
                       /\ joined[i - 1] \notin Whitespace
                       /\ joined[i + 1] \notin Whitespace
            /\ args = ExampleCollapse =>
                   joined = <<"a", SPACE, "b", SPACE, "c">>

\* C4 witness: the rule was applied to " a   b\tc " and gave three tokens.
C4_Witness ==
    /\ pc = "apply_rule_H050"
    /\ args = ExampleCollapse
    /\ outcome = << <<"a">>, <<"b">>, <<"c">> >>

\* C5: every span process_source substituted is the attribute name, then
\* =", then characters none of which is a double quote, then a double
\* quote; the spans are in order and do not overlap; and no attribute begins
\* at a position left outside the spans, so that every attribute of the
\* source is a span of its own.
C5_SpansAreSingleAttributes ==
    Returned =>
        LET c == args.content
            m == outcome.matched
            n == Len(attribute_name)
        IN  /\ \A k \in 1..Len(m) :
                   /\ SubSeq(c, m[k].from, m[k].from + n + 1) =
                          attribute_name \o <<EQUALS, QUOTE>>
                   /\ m[k].from + n + 2 <= m[k].to - 1
                   /\ m[k].to - 1 <= Len(c)
                   /\ c[m[k].to - 1] = QUOTE
                   /\ \A j \in (m[k].from + n + 2)..(m[k].to - 2) :
                          c[j] # QUOTE
                   /\ k > 1 => m[k - 1].to <= m[k].from
            /\ \A i \in 1..Len(c) :
                   Outside(m, i) => ~AttributeAt(attribute_name, c, i)

\* C5 witness: a source holding two attributes was processed, and each of
\* them is a span.
C5_Witness ==
    /\ Returned
    /\ Len(outcome.matched) = 2
    /\ outcome.matched[1].to <= outcome.matched[2].from

\* C6: get_attribute_value raises ParserError on a text that does not
\* start with name=" or does not end with a double quote; when
\* attribute_cleaner is handed such a span during process_source, the call
\* raises ParserError and returns no tuple.
C6_MalformedMatchAborts ==
    /\ pc = "get_attribute_value" /\ BreaksEnvelope(attribute_name, args) =>
           outcome.raised = "ParserError"
    /\ pc = "process_source" =>
           \A k \in 1..Len(outcome.matched) :
               BreaksEnvelope(attribute_name,
                              SubSeq(args.content, outcome.matched[k].from,
                                     outcome.matched[k].to - 1)) =>
                   /\ outcome.raised = "ParserError"
                   /\ outcome.returned = <<>>

\* C6 witness: process_source matched a span that does not start with
\* name=", with a logger that works.
C6_Witness ==
    /\ pc = "process_source"
    /\ ~args.log_raises
    /\ \E k \in 1..Len(outcome.matched) :
           BreaksEnvelope(attribute_name,
                          SubSeq(args.content, outcome.matched[k].from,
                                 outcome.matched[k].to - 1))
    /\ outcome.raised = "ParserError"

\* C7 (as stated): when the logger raises, process_source still returns
\* what it returns with a logger that works.
C7_LoggerFailureIsolated ==
    pc = "process_source" /\ args.log_raises =>
        /\ outcome.raised # "LoggerError"
        /\ outcome.returned =
               process_source(attribute_name, args.filepath, args.content,
                              FALSE).returned

\* C8 (as stated): batch_sources returns one result per entry of the
\* mapping, in the mapping's order, each with its entry's identifier and
\* original content.
C8_BatchOneResultPerEntry ==
    pc = "batch_sources" =>
        /\ outcome.raised = "none"
        /\ Len(outcome.returned) = 1
        /\ Len(outcome.returned[1]) = Len(args.sources)
        /\ \A k \in 1..Len(args.sources) :
               /\ outcome.returned[1][k][1] = args.sources[k][1]
               /\ outcome.returned[1][k][2] = args.sources[k][2]

\* What holds of the batch: a list that is returned holds one result per
\* entry, in order, with the entry's identifier and original content.
BatchWhenReturned ==
    pc = "batch_sources" /\ outcome.raised = "none" =>
        /\ Len(outcome.returned[1]) = Len(args.sources)
        /\ \A k \in 1..Len(args.sources) :
               /\ outcome.returned[1][k][1] = args.sources[k][1]
               /\ outcome.returned[1][k][2] = args.sources[k][2]

\* C9 (as stated, for the error it names): when the processing of one
\* source of a batch of several raises ParserError, the results of the
\* other sources are returned.
C9_BatchKeepsOtherResults ==
    /\ pc = "batch_sources"
    /\ outcome.raised = "ParserError"
    /\ Len(args.sources) > 1
    =>  /\ Len(outcome.returned) = 1
        /\ \A k \in 1..Len(args.sources) :
               k # outcome.calls =>
                   \E r \in 1..Len(outcome.returned[1]) :
                       outcome.returned[1][r][1] = args.sources[k][1]

\* C10 (as stated): every span the pattern matches starts with name=" and
\* ends with a double quote, and process_source never raises ParserError.
C10_MalformedMatchUnreachable ==
    pc = "process_source" =>
        /\ outcome.raised # "ParserError"
        /\ \A k \in 1..Len(outcome.matched) :
               ~BreaksEnvelope(attribute_name,
                               SubSeq(args.content, outcome.matched[k].from,
                                      outcome.matched[k].to - 1))

\* What holds of the pattern: for an attribute name without a regular
\* expression metacharacter, process_source never raises ParserError.
LiteralNameNeverMalformed ==
    pc = "process_source" /\ "." \notin {attribute_name[j] :
                                          j \in 1..Len(attribute_name)} =>
        outcome.raised # "ParserError"

====
